---- MODULE Spec2Model ----
(***************************************************************************)
(* VaultStream: the signer (SecurityService), the access gate and the HLS  *)
(* server (streamController, videoController, validateSignedUrl), and the  *)
(* transcoding pipeline (VideoProcessingService) with the owner's          *)
(* metadata edit and delete handlers.                                      *)
(*                                                                         *)
(* Time is counted in whole seconds, as Math.floor(Date.now() / 1000).     *)
(* A JavaScript value that is undefined is the string Undefined; a value   *)
(* that is present but falsy (null, "", 0, false in a JSON payload) is the *)
(* string Null.  HMAC-SHA256 under the process secret is an injective      *)
(* function of the serialised data that only the server can evaluate.      *)
(***************************************************************************)
EXTENDS Integers, Sequences, FiniteSets, TLC

VARIABLES
  now,      \* the clock, seconds since the epoch
  held,     \* the token a client presents next (at most one), with the mint call it stems from
  val,      \* the outcome of the last direct SecurityService.validateSignedUrl call
  videos,   \* the videos collection of the document store, by videoId
  storage,  \* the storage tree of each video: source blob, HLS files, master manifest
  pv,       \* processVideo's position and in-memory document, by videoId
  upd,      \* the updateVideo request in flight (between findOne and save)
  del,      \* the deleteVideo request in flight
  resp      \* the HTTP response of the step just taken

vars == <<now, held, val, videos, storage, pv, upd, del, resp>>

-----------------------------------------------------------------------------
(* Bounds and value domains *)

MaxClock == 3
NumSegments == 1
SignedUrlExpiry == 2
MinPassphraseLength == 4

VideoIds == {"v1", "v2"}
UserIds == {"u1", "u2"}
Undefined == "undefined"
Null == "null"
MaybeUser == UserIds \cup {Undefined}

\* the ttl values of a direct generateSignedUrl call; 0 stands for an omitted
\* argument as well, since the code reads it with expiresIn || default
TTLs == {-1, 0, 1, 2}

Playlist(name) == <<name, "m3u8">>
Segment(name, k) == <<name, k, "ts">>
Ext(file) == file[Len(file)]
MasterFile == Playlist("master")

-----------------------------------------------------------------------------
(* SecurityService: signed URL tokens *)

Truthy(v) == v # Undefined /\ v # Null

UserIdOf(payload) == IF "userId" \in DOMAIN payload THEN payload.userId ELSE Undefined

createSignature(payload) ==
  <<"hmac-sha256", payload.videoId, payload.resource, payload.expiresAt,
    IF Truthy(UserIdOf(payload)) THEN payload.userId ELSE Null>>

encodeToken(payload, signature) == [p |-> payload, s |-> signature]

decodeToken(token) ==
  IF "p" \notin DOMAIN token \/ "s" \notin DOMAIN token
  THEN [ok |-> FALSE]
  ELSE [ok |-> TRUE, payload |-> token.p, signature |-> token.s]

\* a MAC is 64 hex characters; a forged signature <<"junk", n>> has n characters
SigLength(signature) == IF signature[1] = "hmac-sha256" THEN 64 ELSE signature[2]

Forbidden(code) == [ok |-> FALSE, statusCode |-> 403, code |-> code]

generateSignedUrl_DropsUserId(videoId, resource, userId, expiresIn, t) ==
  LET expiry == IF expiresIn # 0 THEN expiresIn ELSE SignedUrlExpiry
      payload == [videoId |-> videoId, resource |-> resource, expiresAt |-> t + expiry]
  IN  encodeToken(payload, createSignature(payload))

generateSignedUrl(videoId, resource, userId, expiresIn, t) ==
  LET expiry == IF expiresIn # 0 THEN expiresIn ELSE SignedUrlExpiry
      expiresAt == t + expiry
      payload == IF Truthy(userId)
                 THEN [videoId |-> videoId, resource |-> resource,
                       expiresAt |-> expiresAt, userId |-> userId]
                 ELSE [videoId |-> videoId, resource |-> resource,
                       expiresAt |-> expiresAt]
  IN  encodeToken(payload, createSignature(payload))

validateSignedUrl_ExpiresEarly(token, t) ==
  LET d == decodeToken(token) IN
  IF ~d.ok THEN Forbidden("INVALID_TOKEN")
  ELSE LET expectedSignature == createSignature(d.payload) IN
       IF SigLength(d.signature) # SigLength(expectedSignature)
       THEN Forbidden("INVALID_TOKEN")
       ELSE IF d.signature # expectedSignature THEN Forbidden("INVALID_SIGNATURE")
       ELSE IF d.payload.expiresAt <= t THEN Forbidden("TOKEN_EXPIRED")
       ELSE [ok |-> TRUE, payload |-> d.payload]

validateSignedUrl_NeverExpires(token, t) ==
  LET d == decodeToken(token) IN
  IF ~d.ok THEN Forbidden("INVALID_TOKEN")
  ELSE LET expectedSignature == createSignature(d.payload) IN
       IF SigLength(d.signature) # SigLength(expectedSignature)
       THEN Forbidden("INVALID_TOKEN")
       ELSE IF d.signature # expectedSignature THEN Forbidden("INVALID_SIGNATURE")
       ELSE [ok |-> TRUE, payload |-> d.payload]

validateSignedUrl(token, t) ==
  LET d == decodeToken(token) IN
  IF ~d.ok THEN Forbidden("INVALID_TOKEN")
  ELSE LET expectedSignature == createSignature(d.payload) IN
       \* crypto.timingSafeEqual throws a RangeError on buffers of different
       \* length, which the catch turns into INVALID_TOKEN
       IF SigLength(d.signature) # SigLength(expectedSignature)
       THEN Forbidden("INVALID_TOKEN")
       ELSE IF d.signature # expectedSignature THEN Forbidden("INVALID_SIGNATURE")
       ELSE IF d.payload.expiresAt < t THEN Forbidden("TOKEN_EXPIRED")
       ELSE [ok |-> TRUE, payload |-> d.payload]

\* bcrypt: a salted hash that compare() matches against the hashed text only
bcryptHash(passphrase) == <<"bcrypt", passphrase>>

WeakPassphrase == [ok |-> FALSE, statusCode |-> 400, code |-> "WEAK_PASSPHRASE"]

hashPassphrase(passphrase) ==
  IF passphrase = Undefined \/ Len(passphrase) < MinPassphraseLength
  THEN WeakPassphrase
  ELSE [ok |-> TRUE, hash |-> bcryptHash(passphrase)]

verifyPassphrase(passphrase, hash) == hash = bcryptHash(passphrase)

-----------------------------------------------------------------------------
(* The Video model and the document store *)

Visibilities == {"public", "unlisted", "private"}
NoHash == <<>>

\* passphrases are sequences of characters; String.prototype.trim strips blanks
Blank == " "
Good == <<"o", "p", "e", "n">>
Padded == <<Blank, "o", "p", "e", "n", Blank>>
Weak == <<"a", "b", "c">>
Blanks == <<Blank, Blank>>
Wrong == <<"n", "o", "p", "e">>

RECURSIVE TrimStart(_)
TrimStart(s) == IF s # <<>> /\ Head(s) = Blank THEN TrimStart(Tail(s)) ELSE s
RECURSIVE TrimEnd(_)
TrimEnd(s) ==
  IF s # <<>> /\ s[Len(s)] = Blank THEN TrimEnd(SubSeq(s, 1, Len(s) - 1)) ELSE s
trim(s) == TrimEnd(TrimStart(s))

\* a path field that is not set
NoPath == <<>>

\* a document of the videos collection; row tells whether it is stored
NoVideo ==
  [row |-> "none", videoId |-> Undefined, userId |-> Undefined,
   visibility |-> "unlisted", passphraseHash |-> NoHash, status |-> "uploading",
   height |-> 0, masterPlaylistPath |-> NoPath, thumbnailPath |-> NoPath,
   processingError |-> Undefined]

\* Video.findOne({ videoId }): passphraseHash is declared select: false and is
\* loaded only on .select('+passphraseHash'); no document reads as NoVideo
FindOne(videoId, selectHash) ==
  IF videos[videoId].row # "present" THEN NoVideo
  ELSE IF selectHash THEN videos[videoId]
  ELSE [videos[videoId] EXCEPT !.passphraseHash = NoHash]

save_WholeDocument(stored, doc, dirty) == [doc EXCEPT !.row = stored.row]

\* document.save() of a loaded document: an update that sets the modified paths
save(stored, doc, dirty) ==
  [f \in DOMAIN stored |-> IF f \in dirty THEN doc[f] ELSE stored[f]]

\* the update is sent only when a path is modified; it fails when the store is
\* down or the document is gone (DocumentNotFoundError)
CanSave(videoId, dirty, dbUp) ==
  dirty = {} \/ (dbUp /\ videos[videoId].row = "present")

Saved(videoId, doc, dirty) ==
  IF dirty = {} THEN videos
  ELSE [videos EXCEPT ![videoId] = save(videos[videoId], doc, dirty)]

-----------------------------------------------------------------------------
(* VideoProcessingService: the rendition ladder and the files of a rendition *)

AVAILABLE_RENDITIONS ==
  <<[height |-> 1080, bitrate |-> "5000k"], [height |-> 720, bitrate |-> "2800k"],
    [height |-> 480, bitrate |-> "1400k"], [height |-> 360, bitrate |-> "800k"]>>
SourceHeights == {240, 480}

QualityName(height) == ToString(height) \o "p"

determineQualityLevels_Upscales(height) ==
  [i \in 1 .. Len(AVAILABLE_RENDITIONS) |->
     [name |-> QualityName(AVAILABLE_RENDITIONS[i].height),
      height |-> AVAILABLE_RENDITIONS[i].height,
      bitrate |-> AVAILABLE_RENDITIONS[i].bitrate]]

determineQualityLevels(height) ==
  LET validRenditions == SelectSeq(AVAILABLE_RENDITIONS, LAMBDA r : r.height <= height) IN
  IF Len(validRenditions) = 0
  THEN <<[name |-> QualityName(height), height |-> height, bitrate |-> "800k"]>>
  ELSE [i \in 1 .. Len(validRenditions) |->
          [name |-> QualityName(validRenditions[i].height),
           height |-> validRenditions[i].height,
           bitrate |-> validRenditions[i].bitrate]]

\* the names of a list of qualities, as the encode loop and the manifest use them
QualityNames(qualities) == [i \in 1 .. Len(qualities) |-> qualities[i].name]

Thumbnail == <<"thumbnail", "jpg">>

\* what ffmpeg writes for one rendition: the variant playlist and its segments
SegmentsOf(name) == [k \in 1 .. NumSegments |-> Segment(name, k - 1)]
RenditionFiles(name) == {Playlist(name)} \cup {SegmentsOf(name)[k] : k \in 1 .. NumSegments}

\* a playlist is its lines, content.split('\n'): a line that names a file is that
\* file, any other line (a tag, a blank line) is its text alone
Tag(text) == <<text>>

RECURSIVE StreamInf(_)
StreamInf(names) ==
  IF names = <<>> THEN <<>>
  ELSE <<Tag("#EXT-X-STREAM-INF"), Playlist(Head(names))>> \o StreamInf(Tail(names))

\* the manifest generateMasterPlaylist writes for a list of renditions
MasterContent(names) ==
  <<Tag("#EXTM3U"), Tag("#EXT-X-VERSION:3"), Tag("")>> \o StreamInf(names) \o <<Tag("")>>

RECURSIVE Extinf(_)
Extinf(segments) ==
  IF segments = <<>> THEN <<>>
  ELSE <<Tag("#EXTINF"), Head(segments)>> \o Extinf(Tail(segments))

\* the VOD playlist ffmpeg writes for one rendition
VariantContent(name) ==
  <<Tag("#EXTM3U"), Tag("#EXT-X-VERSION:3"), Tag("#EXT-X-PLAYLIST-TYPE:VOD")>>
  \o Extinf(SegmentsOf(name)) \o <<Tag("#EXT-X-ENDLIST"), Tag("")>>

\* the lines of a stored playlist
Lines(videoId, file) ==
  IF file = MasterFile THEN MasterContent(storage[videoId].master)
  ELSE VariantContent(file[1])

Range(seq) == {seq[i] : i \in 1 .. Len(seq)}

-----------------------------------------------------------------------------
(* Clients: the tokens they hold and what they can do to them *)

NoVal == [called |-> FALSE]
NoResp == [op |-> "none", tokens |-> {}]
NoReq == [active |-> FALSE]

\* a freshly minted token, with the generateSignedUrl call that made it
Minted(videoId, resource, userId, expiresIn, t) ==
  LET tok == generateSignedUrl(videoId, resource, userId, expiresIn, t) IN
  [tok |-> tok, of |-> tok,
   req |-> [videoId |-> videoId, resource |-> resource, userId |-> userId,
            expiresIn |-> expiresIn, at |-> t]]

Malformed == [raw |-> "garbage"]
JunkSignatures == {<<"junk", 64>>, <<"junk", 8>>}
SignerResources == {MasterFile, Segment("360p", 0)}

WithUserId(p, u) ==
  [videoId |-> p.videoId, resource |-> p.resource, expiresAt |-> p.expiresAt, userId |-> u]
WithoutUserId(p) ==
  [videoId |-> p.videoId, resource |-> p.resource, expiresAt |-> p.expiresAt]

\* the payloads that differ from payload p in one field and that the signer may
\* have signed for somebody: their MACs are known to an attacker
SignedElsewhere(p) ==
  {[p EXCEPT !.videoId = v] : v \in VideoIds \ {p.videoId}}
  \cup {[p EXCEPT !.resource = r] : r \in SignerResources \ {p.resource}}
  \cup {[p EXCEPT !.expiresAt = p.expiresAt + 1]}
  \cup {WithUserId(p, u) : u \in UserIds \ {UserIdOf(p)}}
  \cup (IF "userId" \in DOMAIN p THEN {WithoutUserId(p)} ELSE {})

\* the tokens an attacker can derive from a minted token t by changing one payload
\* field, the signature, or the structure
Tampered(t) ==
  IF "p" \notin DOMAIN t THEN {}
  ELSE
    LET p == t.p IN
      {[p |-> [p EXCEPT !.videoId = v], s |-> t.s] : v \in VideoIds \ {p.videoId}}
      \cup {[p |-> [p EXCEPT !.resource = r], s |-> t.s] : r \in SignerResources \ {p.resource}}
      \cup {[p |-> [p EXCEPT !.expiresAt = e], s |-> t.s] : e \in {p.expiresAt + 1, p.expiresAt - 1}}
      \cup {[p |-> WithUserId(p, u), s |-> t.s] : u \in (UserIds \cup {Null}) \ {UserIdOf(p)}}
      \cup (IF "userId" \in DOMAIN p THEN {[p |-> WithoutUserId(p), s |-> t.s]} ELSE {})
      \cup {[p |-> p, s |-> sig] : sig \in JunkSignatures \cup {createSignature(q) : q \in SignedElsewhere(p)}}
      \cup {Malformed}

-----------------------------------------------------------------------------
(* HTTP responses *)

NoPassphrase == <<>>
NoToken == [none |-> TRUE]

\* an error response of the errorHandler: ApiError's status code and code
Fail(statusCode, code) ==
  [statusCode |-> statusCode, code |-> code, tokens |-> {}, body |-> NoPath]

\* a success response: the file served, and the tokens its links carry
Served(statusCode, body, tokens) ==
  [statusCode |-> statusCode, code |-> "OK", tokens |-> tokens, body |-> body]

-----------------------------------------------------------------------------
(* The access gate *)

IsOwner(video, user) == user # Undefined /\ user = video.userId

VideoRequestVideoAccess_NoPrivateCheck(videoId, user, passphrase, t) ==
  LET video == FindOne(videoId, FALSE) IN
  IF video.row # "present" THEN Fail(404, "VIDEO_NOT_FOUND")
  ELSE IF video.passphraseHash # NoHash /\ passphrase = NoPassphrase
  THEN Fail(403, "PASSPHRASE_REQUIRED")
  ELSE IF video.passphraseHash # NoHash /\ ~verifyPassphrase(passphrase, video.passphraseHash)
  THEN Fail(403, "INVALID_PASSPHRASE")
  ELSE IF video.status # "ready" THEN Fail(400, "VIDEO_NOT_READY")
  ELSE Served(200, NoPath, {Minted(videoId, MasterFile, user, 0, t)})

\* videoController.requestVideoAccess, the handler of POST /api/videos/:videoId/access
VideoRequestVideoAccess(videoId, user, passphrase, t) ==
  LET video == FindOne(videoId, FALSE) IN
  IF video.row # "present" THEN Fail(404, "VIDEO_NOT_FOUND")
  ELSE IF video.visibility = "private" /\ ~IsOwner(video, user)
  THEN Fail(403, "ACCESS_DENIED")
  ELSE IF video.passphraseHash # NoHash /\ passphrase = NoPassphrase
  THEN Fail(403, "PASSPHRASE_REQUIRED")
  ELSE IF video.passphraseHash # NoHash /\ ~verifyPassphrase(passphrase, video.passphraseHash)
  THEN Fail(403, "INVALID_PASSPHRASE")
  ELSE IF video.status # "ready" THEN Fail(400, "VIDEO_NOT_READY")
  ELSE Served(200, NoPath, {Minted(videoId, MasterFile, user, 0, t)})

\* streamController.requestVideoAccess, the handler of POST /api/:videoId/access
StreamRequestVideoAccess(videoId, user, passphrase, t) ==
  LET video == FindOne(videoId, TRUE) IN
  IF video.row # "present" THEN Fail(404, "VIDEO_NOT_FOUND")
  ELSE IF video.status # "ready" THEN Fail(400, "VIDEO_NOT_READY")
  ELSE IF video.visibility = "private" /\ ~IsOwner(video, user)
  THEN Fail(403, "ACCESS_DENIED")
  ELSE IF video.passphraseHash # NoHash /\ passphrase = NoPassphrase
  THEN Fail(401, "PASSPHRASE_REQUIRED")
  ELSE IF video.passphraseHash # NoHash /\ ~verifyPassphrase(passphrase, video.passphraseHash)
  THEN Fail(401, "INVALID_PASSPHRASE")
  ELSE Served(200, NoPath, {Minted(video.videoId, MasterFile, user, 0, t)})

-----------------------------------------------------------------------------
(* The HLS server: the validateSignedUrl middleware and the stream handlers *)

validateSignedUrlMiddleware_NoResourceCheck(token, file, t) ==
  IF token = NoToken THEN [next |-> FALSE, error |-> Fail(401, "MISSING_TOKEN")]
  ELSE LET r == validateSignedUrl(token, t) IN
       IF ~r.ok THEN [next |-> FALSE, error |-> Fail(r.statusCode, r.code)]
       ELSE [next |-> TRUE, signedPayload |-> r.payload]

\* extractResourceFromPath yields the last path segment, the file of the URL
validateSignedUrlMiddleware(token, file, t) ==
  IF token = NoToken THEN [next |-> FALSE, error |-> Fail(401, "MISSING_TOKEN")]
  ELSE LET r == validateSignedUrl(token, t) IN
       IF ~r.ok THEN [next |-> FALSE, error |-> Fail(r.statusCode, r.code)]
       ELSE IF r.payload.resource # file
       THEN [next |-> FALSE, error |-> Fail(403, "RESOURCE_MISMATCH")]
       ELSE [next |-> TRUE, signedPayload |-> r.payload]

\* storageAdapter.download / downloadStream of a file under the video's hlsPath
Stored(videoId, file) == file \in storage[videoId].hls

\* a rewritten playlist: every line, with the token appended to it if any
Rewritten(content, ext, resourceOf, videoId, userId, t) ==
  [i \in 1 .. Len(content) |->
     IF Ext(content[i]) = ext
     THEN [line |-> content[i],
           token |-> Minted(videoId, resourceOf[i], userId, 0, t)]
     ELSE [line |-> content[i]]]

\* the tokens a rewritten playlist carries
Tokens(rewritten) ==
  {rewritten[i].token : i \in {j \in 1 .. Len(rewritten) : "token" \in DOMAIN rewritten[j]}}

rewritePlaylistUrls_TokenOnEveryLine(content, videoId, userId, t) ==
  [i \in 1 .. Len(content) |->
     [line |-> content[i], token |-> Minted(videoId, content[i], userId, 0, t)]]

rewritePlaylistUrls(content, videoId, userId, t) ==
  Rewritten(content, "m3u8", content, videoId, userId, t)

rewriteSegmentUrls_SignsPlaylist(content, videoId, userId, t) ==
  Rewritten(content, "ts", [i \in 1 .. Len(content) |-> Playlist(content[i][1])],
            videoId, userId, t)

rewriteSegmentUrls(content, videoId, userId, t) ==
  Rewritten(content, "ts", content, videoId, userId, t)

serveMasterPlaylist(videoId, signedPayload, t) ==
  LET video == FindOne(videoId, FALSE) IN
  IF signedPayload.videoId # videoId THEN Fail(403, "INVALID_VIDEO_ID")
  ELSE IF video.row # "present" \/ video.status # "ready"
  THEN Fail(404, "VIDEO_NOT_AVAILABLE")
  ELSE IF video.masterPlaylistPath = NoPath THEN Fail(500, Undefined)
  ELSE IF ~Stored(videoId, video.masterPlaylistPath) THEN Fail(404, Undefined)
  ELSE Served(200, video.masterPlaylistPath,
              Tokens(rewritePlaylistUrls(Lines(videoId, video.masterPlaylistPath), videoId,
                                         UserIdOf(signedPayload), t)))

serveVariantPlaylist(videoId, playlist, signedPayload, t) ==
  LET video == FindOne(videoId, FALSE) IN
  IF signedPayload.videoId # videoId THEN Fail(403, "INVALID_VIDEO_ID")
  ELSE IF video.row # "present" \/ video.status # "ready"
  THEN Fail(404, "VIDEO_NOT_AVAILABLE")
  ELSE IF ~Stored(videoId, playlist) THEN Fail(404, Undefined)
  ELSE Served(200, playlist,
              Tokens(rewriteSegmentUrls(Lines(videoId, playlist), videoId,
                                        UserIdOf(signedPayload), t)))

serveSegment(videoId, segment, signedPayload) ==
  LET video == FindOne(videoId, FALSE) IN
  IF signedPayload.videoId # videoId THEN Fail(403, "INVALID_VIDEO_ID")
  ELSE IF video.row # "present" \/ video.status # "ready"
  THEN Fail(404, "VIDEO_NOT_AVAILABLE")
  ELSE IF ~Stored(videoId, segment) THEN Fail(404, Undefined)
  ELSE Served(200, segment, {})

\* routes/stream.ts: GET /stream/:videoId/master.m3u8 and GET /stream/:videoId/:playlist
StreamRouter(videoId, file, token, t) ==
  LET m == validateSignedUrlMiddleware(token, file, t) IN
  IF ~m.next THEN m.error
  ELSE IF file = MasterFile THEN serveMasterPlaylist(videoId, m.signedPayload, t)
  ELSE IF Ext(file) = "m3u8" THEN serveVariantPlaylist(videoId, file, m.signedPayload, t)
  ELSE IF Ext(file) = "ts" THEN serveSegment(videoId, file, m.signedPayload)
  ELSE Fail(404, "NOT_FOUND")

-----------------------------------------------------------------------------
(* Initial state: an empty store, no request in flight *)

\* temp: a temp file of an upload request for the video is in the scratch
\* directory; open: the read streams open on files of the video
NoFiles ==
  [original |-> FALSE, dir |-> FALSE, hls |-> {}, master |-> <<>>, temp |-> FALSE,
   open |-> 0]
NoPipeline ==
  [pc |-> "idle", doc |-> NoVideo, dirty |-> {}, todo |-> <<>>, succeeded |-> <<>>,
   lastSave |-> "none"]

Init ==
  /\ now = 0
  /\ held = {}
  /\ val = NoVal
  /\ videos = [v \in VideoIds |-> NoVideo]
  /\ storage = [v \in VideoIds |-> NoFiles]
  /\ pv = [v \in VideoIds |-> NoPipeline]
  /\ upd = NoReq
  /\ del = NoReq
  /\ resp = NoResp

Respond(op, req, r, doc) ==
  [op |-> op, req |-> req, statusCode |-> r.statusCode, code |-> r.code,
   tokens |-> r.tokens, body |-> r.body, doc |-> doc]

\* a step that answers no request
Quiet == val' = NoVal /\ resp' = NoResp

\* resp shows one response at a time: the server's next step is taken once the
\* response has been read (Follow, Discard)
Idle == resp = NoResp

-----------------------------------------------------------------------------
(* videoController.uploadVideo, up to the response; processVideo is started and
   runs up to its first await, with video.status already set to processing *)

UploadPassphrases == {NoPassphrase, Blanks, Weak, Good, Padded}

\* a visibility that express-validator's isIn check refuses
Invalid == "invalid"

\* fs.promises.rename of the temp file to storagePath: done, or failed because
\* the scratch directory is on another device, or for another reason
RenameOutcomes == {"ok", "EXDEV", "EIO"}

\* moveFileSafe(src, dest): the files left and whether it throws, by the outcome
\* of the rename, of the streamed copy, of unlinking src and of unlinking dest
moveFileSafe(rename, copied, unlinkedSrc, unlinkedDest) ==
  IF rename = "ok" THEN [src |-> FALSE, dest |-> TRUE, error |-> FALSE]
  ELSE IF rename # "EXDEV" THEN [src |-> TRUE, dest |-> FALSE, error |-> TRUE]
  ELSE IF copied /\ unlinkedSrc THEN [src |-> FALSE, dest |-> TRUE, error |-> FALSE]
  ELSE [src |-> TRUE, dest |-> ~unlinkedDest, error |-> TRUE]

\* the route runs authenticate, then multer (which writes the temp file), then
\* the validators and validate, then the handler
Upload(user, videoId, visibility, passphrase, rename, dbUp) ==
  LET req == [videoId |-> videoId, user |-> user, visibility |-> visibility,
              passphrase |-> passphrase, rename |-> rename]
      protect == passphrase # NoPassphrase /\ Len(trim(passphrase)) > 0
      hashed == hashPassphrase(trim(passphrase))
      video == [NoVideo EXCEPT !.row = "present", !.videoId = videoId, !.userId = user,
                  !.visibility = IF visibility = Undefined THEN "unlisted" ELSE visibility,
                  !.passphraseHash = IF protect THEN hashed.hash ELSE NoHash]
      started == [video EXCEPT !.status = "processing"]
  IN
  /\ Idle
  /\ videos[videoId].row = "none"
  /\ val' = NoVal
  /\ UNCHANGED <<now, held, upd, del>>
  /\ IF user = Undefined
     THEN /\ resp' = Respond("uploadVideo", req, Fail(401, "NO_TOKEN"), NoVideo)
          /\ UNCHANGED <<videos, storage, pv>>
     ELSE IF visibility \notin Visibilities \cup {Undefined}
     THEN /\ resp' = Respond("uploadVideo", req, Fail(400, "VALIDATION_ERROR"), NoVideo)
          /\ storage' = [storage EXCEPT ![videoId].temp = TRUE]
          /\ UNCHANGED <<videos, pv>>
     ELSE IF protect /\ ~hashed.ok
     THEN /\ resp' = Respond("uploadVideo", req, Fail(400, "WEAK_PASSPHRASE"), NoVideo)
          /\ UNCHANGED <<videos, storage, pv>>
     ELSE IF rename # "ok"
     THEN /\ resp' = Respond("uploadVideo", req, Fail(500, Undefined), NoVideo)
          /\ UNCHANGED <<videos, storage, pv>>
     ELSE IF ~dbUp
     THEN /\ resp' = Respond("uploadVideo", req, Fail(500, Undefined), NoVideo)
          /\ storage' = [storage EXCEPT ![videoId].original = TRUE]
          /\ UNCHANGED <<videos, pv>>
     ELSE /\ videos' = [videos EXCEPT ![videoId] = video]
          /\ storage' = [storage EXCEPT ![videoId].original = TRUE]
          /\ pv' = [pv EXCEPT ![videoId] =
                      [NoPipeline EXCEPT !.pc = "saveProcessing", !.doc = started,
                                         !.dirty = {"status"}]]
          /\ resp' = Respond("uploadVideo", req, Served(201, NoPath, {}), started)

-----------------------------------------------------------------------------
(* VideoProcessingService.processVideo, one action per await *)

\* entering the catch block: status and processingError are set in memory
Catch(p, message) ==
  [p EXCEPT !.pc = "saveFailed", !.doc.status = "failed",
            !.doc.processingError = message,
            !.dirty = @ \cup {"status", "processingError"}]

SaveStep(videoId, dbUp, nextPc) ==
  LET p == pv[videoId] IN
  IF CanSave(videoId, p.dirty, dbUp)
  THEN /\ videos' = Saved(videoId, p.doc, p.dirty)
       /\ pv' = [pv EXCEPT ![videoId] =
                   [p EXCEPT !.pc = nextPc, !.dirty = {}, !.lastSave = "ok"]]
  ELSE /\ UNCHANGED videos
       /\ pv' = [pv EXCEPT ![videoId] = Catch([p EXCEPT !.lastSave = "failed"], "save")]

SaveProcessing(videoId, dbUp) ==
  /\ Idle
  /\ pv[videoId].pc = "saveProcessing"
  /\ SaveStep(videoId, dbUp, "extractMetadata")
  /\ Quiet
  /\ UNCHANGED <<now, held, storage, upd, del>>

ExtractMetadata(videoId, ok, height) ==
  LET p == pv[videoId] IN
  /\ Idle
  /\ p.pc = "extractMetadata"
  /\ pv' = [pv EXCEPT ![videoId] =
              IF ok /\ storage[videoId].original
              THEN [p EXCEPT !.pc = "saveMetadata", !.doc.height = height,
                             !.dirty = @ \cup {"height"}]
              ELSE Catch(p, "ffprobe")]
  /\ Quiet
  /\ UNCHANGED <<now, held, videos, storage, upd, del>>

SaveMetadata(videoId, dbUp) ==
  /\ Idle
  /\ pv[videoId].pc = "saveMetadata"
  /\ LET p == pv[videoId] IN
     IF CanSave(videoId, p.dirty, dbUp)
     THEN /\ videos' = Saved(videoId, p.doc, p.dirty)
          /\ pv' = [pv EXCEPT ![videoId] =
                      [p EXCEPT !.pc = "mkdir", !.dirty = {}, !.lastSave = "ok",
                                !.todo = QualityNames(determineQualityLevels(p.doc.height))]]
     ELSE /\ UNCHANGED videos
          /\ pv' = [pv EXCEPT ![videoId] = Catch([p EXCEPT !.lastSave = "failed"], "save")]
  /\ Quiet
  /\ UNCHANGED <<now, held, storage, upd, del>>

Mkdir(videoId, ok) ==
  LET p == pv[videoId] IN
  /\ Idle
  /\ p.pc = "mkdir"
  /\ IF ok
     THEN /\ storage' = [storage EXCEPT ![videoId].dir = TRUE]
          /\ pv' = [pv EXCEPT ![videoId].pc = "encode"]
     ELSE /\ UNCHANGED storage
          /\ pv' = [pv EXCEPT ![videoId] = Catch(p, "mkdir")]
  /\ Quiet
  /\ UNCHANGED <<now, held, videos, upd, del>>

Encode_StopsAtFirstFailure(videoId, ok) ==
  LET p == pv[videoId]
      name == Head(p.todo)
      done == ok /\ storage[videoId].original /\ storage[videoId].dir
      succeeded == IF done THEN Append(p.succeeded, name) ELSE p.succeeded
      q == [p EXCEPT !.todo = Tail(p.todo), !.succeeded = succeeded]
  IN
  /\ Idle
  /\ p.pc = "encode"
  /\ storage' = IF done
                THEN [storage EXCEPT ![videoId].hls = @ \cup RenditionFiles(name)]
                ELSE storage
  /\ pv' = [pv EXCEPT ![videoId] =
              IF ~done THEN Catch(q, "ffmpeg")
              ELSE IF q.todo # <<>> THEN q
              ELSE [q EXCEPT !.pc = "writeMaster"]]
  /\ Quiet
  /\ UNCHANGED <<now, held, videos, upd, del>>

\* generateHLS: one rendition per step; a failed rendition is skipped, and the
\* loop's end throws when none succeeded
Encode(videoId, ok) ==
  LET p == pv[videoId]
      name == Head(p.todo)
      done == ok /\ storage[videoId].original /\ storage[videoId].dir
      succeeded == IF done THEN Append(p.succeeded, name) ELSE p.succeeded
      q == [p EXCEPT !.todo = Tail(p.todo), !.succeeded = succeeded]
  IN
  /\ Idle
  /\ p.pc = "encode"
  /\ storage' = IF done
                THEN [storage EXCEPT ![videoId].hls = @ \cup RenditionFiles(name)]
                ELSE storage
  /\ pv' = [pv EXCEPT ![videoId] =
              IF q.todo # <<>> THEN q
              ELSE IF Len(succeeded) = 0 THEN Catch(q, "All renditions failed to generate")
              ELSE [q EXCEPT !.pc = "writeMaster"]]
  /\ Quiet
  /\ UNCHANGED <<now, held, videos, upd, del>>

\* generateQualityPlaylist settles only on ffmpeg's 'end' or 'error' event: an
\* encoder that emits neither leaves the await of generateHLS pending for good
EncodeHangs(videoId) ==
  /\ Idle
  /\ pv[videoId].pc = "encode"
  /\ pv' = [pv EXCEPT ![videoId].pc = "stalled"]
  /\ Quiet
  /\ UNCHANGED <<now, held, videos, storage, upd, del>>

WriteMaster_IgnoresError(videoId, ok) ==
  LET p == pv[videoId] IN
  /\ Idle
  /\ p.pc = "writeMaster"
  /\ storage' = IF ok /\ storage[videoId].dir
                THEN [storage EXCEPT ![videoId].master = p.succeeded,
                                     ![videoId].hls = @ \cup {MasterFile}]
                ELSE storage
  /\ pv' = [pv EXCEPT ![videoId].pc = "thumbnail"]
  /\ Quiet
  /\ UNCHANGED <<now, held, videos, upd, del>>

WriteMaster(videoId, ok) ==
  LET p == pv[videoId] IN
  /\ Idle
  /\ p.pc = "writeMaster"
  /\ IF ok /\ storage[videoId].dir
     THEN /\ storage' = [storage EXCEPT ![videoId].master = p.succeeded,
                                        ![videoId].hls = @ \cup {MasterFile}]
          /\ pv' = [pv EXCEPT ![videoId].pc = "thumbnail"]
     ELSE /\ UNCHANGED storage
          /\ pv' = [pv EXCEPT ![videoId] = Catch(p, "writeFile")]
  /\ Quiet
  /\ UNCHANGED <<now, held, videos, upd, del>>

\* generateThumbnail resolves on error too; then status and masterPlaylistPath
\* are set in memory for the final save
GenerateThumbnail(videoId, ok) ==
  LET p == pv[videoId]
      done == ok /\ storage[videoId].original /\ storage[videoId].dir
      q == IF done
           THEN [p EXCEPT !.doc.thumbnailPath = Thumbnail, !.dirty = @ \cup {"thumbnailPath"}]
           ELSE p
  IN
  /\ Idle
  /\ p.pc = "thumbnail"
  /\ storage' = IF done THEN [storage EXCEPT ![videoId].hls = @ \cup {Thumbnail}]
                ELSE storage
  /\ pv' = [pv EXCEPT ![videoId] =
              [q EXCEPT !.pc = "saveReady", !.doc.status = "ready",
                        !.doc.masterPlaylistPath = MasterFile,
                        !.dirty = @ \cup {"status", "masterPlaylistPath"}]]
  /\ Quiet
  /\ UNCHANGED <<now, held, videos, upd, del>>

SaveReady(videoId, dbUp) ==
  /\ Idle
  /\ pv[videoId].pc = "saveReady"
  /\ SaveStep(videoId, dbUp, "returned")
  /\ Quiet
  /\ UNCHANGED <<now, held, storage, upd, del>>

\* the save of the catch block; processVideo throws whether it succeeds or not
SaveFailed(videoId, dbUp) ==
  LET p == pv[videoId] IN
  /\ Idle
  /\ p.pc = "saveFailed"
  /\ IF CanSave(videoId, p.dirty, dbUp)
     THEN /\ videos' = Saved(videoId, p.doc, p.dirty)
          /\ pv' = [pv EXCEPT ![videoId] =
                      [p EXCEPT !.pc = "thrown", !.dirty = {}, !.lastSave = "ok"]]
     ELSE /\ UNCHANGED videos
          /\ pv' = [pv EXCEPT ![videoId] = [p EXCEPT !.pc = "thrown", !.lastSave = "failed"]]
  /\ Quiet
  /\ UNCHANGED <<now, held, storage, upd, del>>

-----------------------------------------------------------------------------
(* videoController.updateVideo: findOne, then save *)

UpdateFind(user, videoId, visibility) ==
  LET req == [videoId |-> videoId, user |-> user, visibility |-> visibility]
      video == FindOne(videoId, FALSE)
  IN
  /\ Idle
  /\ ~upd.active
  /\ val' = NoVal
  /\ UNCHANGED <<now, held, videos, storage, pv, del>>
  /\ IF user = Undefined
     THEN resp' = Respond("updateVideo", req, Fail(401, "NO_TOKEN"), NoVideo) /\ UNCHANGED upd
     ELSE IF video.row # "present"
     THEN resp' = Respond("updateVideo", req, Fail(404, "VIDEO_NOT_FOUND"), NoVideo) /\ UNCHANGED upd
     ELSE IF video.userId # user
     THEN resp' = Respond("updateVideo", req, Fail(403, "ACCESS_DENIED"), NoVideo) /\ UNCHANGED upd
     ELSE /\ resp' = NoResp
          /\ upd' = [active |-> TRUE, req |-> req,
                     doc |-> IF visibility = Undefined THEN video
                             ELSE [video EXCEPT !.visibility = visibility],
                     dirty |-> IF visibility \notin {Undefined, video.visibility}
                               THEN {"visibility"} ELSE {}]

UpdateSave(dbUp) ==
  /\ Idle
  /\ upd.active
  /\ val' = NoVal
  /\ upd' = NoReq
  /\ UNCHANGED <<now, held, storage, pv, del>>
  /\ IF CanSave(upd.req.videoId, upd.dirty, dbUp)
     THEN /\ videos' = Saved(upd.req.videoId, upd.doc, upd.dirty)
          /\ resp' = Respond("updateVideo", upd.req, Served(200, NoPath, {}), upd.doc)
     ELSE /\ UNCHANGED videos
          /\ resp' = Respond("updateVideo", upd.req, Fail(500, Undefined), upd.doc)

-----------------------------------------------------------------------------
(* videoController.deleteVideo: findOne, deleteVideoFiles, Video.deleteOne *)

DeleteFind(user, videoId) ==
  LET req == [videoId |-> videoId, user |-> user]
      video == FindOne(videoId, FALSE)
  IN
  /\ Idle
  /\ ~del.active
  /\ val' = NoVal
  /\ UNCHANGED <<now, held, videos, storage, pv, upd>>
  /\ IF user = Undefined
     THEN resp' = Respond("deleteVideo", req, Fail(401, "NO_TOKEN"), NoVideo) /\ UNCHANGED del
     ELSE IF video.row # "present"
     THEN resp' = Respond("deleteVideo", req, Fail(404, "VIDEO_NOT_FOUND"), NoVideo) /\ UNCHANGED del
     ELSE IF video.userId # user
     THEN resp' = Respond("deleteVideo", req, Fail(403, "ACCESS_DENIED"), NoVideo) /\ UNCHANGED del
     ELSE resp' = NoResp /\ del' = [active |-> TRUE, req |-> req, pc |-> "original"]

\* storageAdapter.delete(video.storagePath); a missing file is no error
DeleteOriginal(ok) ==
  /\ Idle
  /\ del.active /\ del.pc = "original"
  /\ val' = NoVal
  /\ UNCHANGED <<now, held, videos, pv, upd>>
  /\ IF ok
     THEN /\ storage' = [storage EXCEPT ![del.req.videoId].original = FALSE]
          /\ del' = [del EXCEPT !.pc = "directory"]
          /\ resp' = NoResp
     ELSE /\ UNCHANGED storage
          /\ del' = NoReq
          /\ resp' = Respond("deleteVideo", del.req, Fail(500, Undefined), NoVideo)

DeleteDirectory_KeepsFiles(ok) ==
  /\ Idle
  /\ del.active /\ del.pc = "directory"
  /\ val' = NoVal
  /\ UNCHANGED <<now, held, videos, storage, pv, upd>>
  /\ IF ok
     THEN /\ del' = [del EXCEPT !.pc = "record"]
          /\ resp' = NoResp
     ELSE /\ del' = NoReq
          /\ resp' = Respond("deleteVideo", del.req, Fail(500, Undefined), NoVideo)

\* storageAdapter.deleteDirectory(video.hlsPath)
DeleteDirectory(ok) ==
  /\ Idle
  /\ del.active /\ del.pc = "directory"
  /\ val' = NoVal
  /\ UNCHANGED <<now, held, videos, pv, upd>>
  /\ IF ok
     THEN /\ storage' = [storage EXCEPT ![del.req.videoId].dir = FALSE,
                                        ![del.req.videoId].hls = {},
                                        ![del.req.videoId].master = <<>>]
          /\ del' = [del EXCEPT !.pc = "record"]
          /\ resp' = NoResp
     ELSE /\ UNCHANGED storage
          /\ del' = NoReq
          /\ resp' = Respond("deleteVideo", del.req, Fail(500, Undefined), NoVideo)

DeleteRecord(dbUp) ==
  /\ Idle
  /\ del.active /\ del.pc = "record"
  /\ val' = NoVal
  /\ del' = NoReq
  /\ UNCHANGED <<now, held, storage, pv, upd>>
  /\ IF dbUp
     THEN /\ videos' = [videos EXCEPT ![del.req.videoId] = [NoVideo EXCEPT !.row = "deleted"]]
          /\ resp' = Respond("deleteVideo", del.req, Served(200, NoPath, {}), NoVideo)
     ELSE /\ UNCHANGED videos
          /\ resp' = Respond("deleteVideo", del.req, Fail(500, Undefined), NoVideo)

-----------------------------------------------------------------------------
(* Direct calls of the SecurityService, as its unit tests make them *)

Generate(videoId, resource, userId, expiresIn) ==
  /\ held' = {Minted(videoId, resource, userId, expiresIn, now)}
  /\ val' = NoVal
  /\ resp' = NoResp
  /\ UNCHANGED <<now, videos, storage, pv, upd, del>>

Tamper ==
  /\ \E h \in held :
       \E t \in Tampered(h.of) :
         held' = {[tok |-> t, of |-> h.of, req |-> h.req]}
  /\ val' = NoVal
  /\ resp' = NoResp
  /\ UNCHANGED <<now, videos, storage, pv, upd, del>>

Validate ==
  /\ \E h \in held :
       val' = [called |-> TRUE, h |-> h, at |-> now, result |-> validateSignedUrl(h.tok, now)]
  /\ resp' = NoResp
  /\ UNCHANGED <<now, held, videos, storage, pv, upd, del>>

Tick ==
  /\ now < MaxClock
  /\ now' = now + 1
  /\ val' = NoVal
  /\ resp' = NoResp
  /\ UNCHANGED <<held, videos, storage, pv, upd, del>>

SignerNext ==
  \/ \E v \in VideoIds, r \in SignerResources, u \in MaybeUser, ttl \in TTLs : Generate(v, r, u, ttl)
  \/ Tamper
  \/ Validate
  \/ Tick

SignerSpec == Init /\ [][SignerNext]_vars

-----------------------------------------------------------------------------
(* Playback requests *)

GatePassphrases == {NoPassphrase, Good, Wrong}

\* POST /api/videos/:videoId/access; the videos router is mounted first
VideoAccess(videoId, user, passphrase) ==
  /\ Idle
  /\ resp' = Respond("access", [route |-> "videos", videoId |-> videoId, user |-> user,
                                passphrase |-> passphrase],
                     VideoRequestVideoAccess(videoId, user, passphrase, now), NoVideo)
  /\ val' = NoVal
  /\ UNCHANGED <<now, held, videos, storage, pv, upd, del>>

\* POST /api/:videoId/access, the path the stream router answers
StreamAccess(videoId, user, passphrase) ==
  /\ Idle
  /\ resp' = Respond("access", [route |-> "stream", videoId |-> videoId, user |-> user,
                                passphrase |-> passphrase],
                     StreamRequestVideoAccess(videoId, user, passphrase, now), NoVideo)
  /\ val' = NoVal
  /\ UNCHANGED <<now, held, videos, storage, pv, upd, del>>

\* the files a client asks for: the playlists and segments of the ladder, and
\* a file that is neither
\* the most read streams followed on the files of one video
MaxOpen == 2

StreamFiles ==
  {MasterFile, Thumbnail}
  \cup UNION {RenditionFiles(QualityName(h)) : h \in SourceHeights}

\* GET /api/stream/:videoId/<file>?token=..., with the held token or with none
GetStream(videoId, file) ==
  /\ Idle
  /\ \E h \in held \cup {[tok |-> NoToken]} :
       resp' = Respond("stream", [videoId |-> videoId, file |-> file, h |-> h],
                       StreamRouter(videoId, file, h.tok, now), NoVideo)
  /\ val' = NoVal
  /\ UNCHANGED <<now, held, videos, storage, pv, upd, del>>

\* GET of a segment whose client goes away while the file is piped: serveSegment
\* opens the read stream and pipes it; the closing response unpipes the stream,
\* which nothing destroys, and its 'end', that would close the file, never comes
Disconnect(videoId, file) ==
  /\ Idle
  /\ Ext(file) = "ts"
  /\ storage[videoId].open < MaxOpen
  /\ \E h \in held :
       LET r == StreamRouter(videoId, file, h.tok, now) IN
       /\ r.statusCode = 200
       /\ resp' = Respond("aborted", [videoId |-> videoId, file |-> file, h |-> h], r, NoVideo)
  /\ storage' = [storage EXCEPT ![videoId].open = @ + 1]
  /\ val' = NoVal
  /\ UNCHANGED <<now, held, videos, pv, upd, del>>

\* the client takes a token from the response it got
Follow ==
  /\ \E e \in resp.tokens : held' = {e}
  /\ Quiet
  /\ UNCHANGED <<now, videos, storage, pv, upd, del>>

Discard ==
  /\ ~Idle
  /\ Quiet
  /\ UNCHANGED <<now, held, videos, storage, pv, upd, del>>

-----------------------------------------------------------------------------
(* The pipeline with the owner's edits and deletes: one upload is followed from
   the empty store; videos share no pipeline state *)

Followed == "v1"

PipelineStep(v) ==
  \/ \E dbUp \in BOOLEAN : SaveProcessing(v, dbUp)
  \/ \E ok \in BOOLEAN, h \in SourceHeights : ExtractMetadata(v, ok, h)
  \/ \E dbUp \in BOOLEAN : SaveMetadata(v, dbUp)
  \/ \E ok \in BOOLEAN : Mkdir(v, ok)
  \/ \E ok \in BOOLEAN : Encode(v, ok)
  \/ \E ok \in BOOLEAN : WriteMaster(v, ok)
  \/ \E ok \in BOOLEAN : GenerateThumbnail(v, ok)
  \/ \E dbUp \in BOOLEAN : SaveReady(v, dbUp)
  \/ \E dbUp \in BOOLEAN : SaveFailed(v, dbUp)

UpdateStep(v) ==
  \/ \E u \in MaybeUser, vis \in Visibilities \cup {Undefined} : UpdateFind(u, v, vis)
  \/ \E dbUp \in BOOLEAN : UpdateSave(dbUp)

DeleteStep(v) ==
  \/ \E u \in MaybeUser : DeleteFind(u, v)
  \/ \E ok \in BOOLEAN : DeleteOriginal(ok)
  \/ \E ok \in BOOLEAN : DeleteDirectory(ok)
  \/ \E dbUp \in BOOLEAN : DeleteRecord(dbUp)

UploadStep(v, users, passphrases) ==
  \E u \in users, vis \in Visibilities \cup {Undefined}, p \in passphrases,
     rename \in RenameOutcomes, dbUp \in BOOLEAN : Upload(u, v, vis, p, rename, dbUp)

PipelineNext ==
  \/ UploadStep(Followed, {Undefined, "u1"}, UploadPassphrases)
  \/ PipelineStep(Followed)
  \/ UpdateStep(Followed)
  \/ Discard

PipelineSpec == Init /\ [][PipelineNext]_vars

-----------------------------------------------------------------------------
(* Playback: the store holds videos whose pipeline has come to rest or is under
   way, as PipelineSpec leaves them *)

ServedNames == <<QualityName(240)>>

\* the owner of the second video: a user who sends no request
Bystander == "u3"

Uploaded(videoId, owner, visibility, hash) ==
  [NoVideo EXCEPT !.row = "present", !.videoId = videoId, !.userId = owner,
                  !.visibility = visibility, !.passphraseHash = hash]

\* the three parts of the state of one video, by the point its pipeline reached
AtRest(videoId, owner, visibility, hash, status) ==
  LET video == Uploaded(videoId, owner, visibility, hash) IN
  CASE status = "ready" ->
         LET doc == [video EXCEPT !.status = "ready", !.height = 240,
                                  !.masterPlaylistPath = MasterFile,
                                  !.thumbnailPath = Thumbnail]
         IN [video |-> doc,
             files |-> [NoFiles EXCEPT
                          !.original = TRUE, !.dir = TRUE, !.master = ServedNames,
                          !.hls = {MasterFile, Thumbnail}
                                  \cup UNION {RenditionFiles(n) : n \in Range(ServedNames)}],
             pipeline |-> [NoPipeline EXCEPT !.pc = "returned", !.doc = doc,
                                             !.succeeded = ServedNames, !.lastSave = "ok"]]
    [] status = "failed" ->
         LET doc == [video EXCEPT !.status = "failed", !.processingError = "ffprobe"]
         IN [video |-> doc,
             files |-> [NoFiles EXCEPT !.original = TRUE],
             pipeline |-> [NoPipeline EXCEPT !.pc = "thrown", !.doc = doc, !.lastSave = "ok"]]
    [] status = "processing" ->
         LET doc == [video EXCEPT !.status = "processing"]
         IN [video |-> doc,
             files |-> [NoFiles EXCEPT !.original = TRUE],
             pipeline |-> [NoPipeline EXCEPT !.pc = "extractMetadata", !.doc = doc,
                                             !.lastSave = "ok"]]
    [] OTHER ->
         [video |-> NoVideo, files |-> NoFiles, pipeline |-> NoPipeline]

ServeInit ==
  /\ now = 0
  /\ held = {}
  /\ val = NoVal
  /\ upd = NoReq
  /\ del = NoReq
  /\ resp = NoResp
  /\ \E s1 \in {"processing", "ready", "failed"}, h1 \in {NoHash, bcryptHash(Good)},
        vis1 \in {"unlisted"}, s2 \in {"ready"} :
       LET a == AtRest("v1", "u1", vis1, h1, s1)
           b == AtRest("v2", Bystander, "public", NoHash, s2)
       IN /\ videos = [v \in VideoIds |-> IF v = "v1" THEN a.video ELSE b.video]
          /\ storage = [v \in VideoIds |-> IF v = "v1" THEN a.files ELSE b.files]
          /\ pv = [v \in VideoIds |-> IF v = "v1" THEN a.pipeline ELSE b.pipeline]

ServeNext ==
  \/ \E v \in VideoIds, u \in MaybeUser, p \in GatePassphrases : VideoAccess(v, u, p)
  \/ \E v \in VideoIds, u \in MaybeUser, p \in GatePassphrases : StreamAccess(v, u, p)
  \/ \E v \in VideoIds, f \in StreamFiles : GetStream(v, f)
  \/ Follow
  \/ Discard
  \/ \E v \in VideoIds : UpdateStep(v) \/ DeleteStep(v)

ServeSpec == ServeInit /\ [][ServeNext]_vars

-----------------------------------------------------------------------------
(* The owner's delete racing the pipeline of the video being deleted *)

DeleteNext ==
  \/ \E rename \in RenameOutcomes, dbUp \in BOOLEAN :
       Upload("u1", Followed, Undefined, NoPassphrase, rename, dbUp)
  \/ PipelineStep(Followed)
  \/ DeleteStep(Followed)
  \/ Discard

DeleteSpec == Init /\ [][DeleteNext]_vars

-----------------------------------------------------------------------------
(* The ladder of every source height: the probe of a stored video reports any
   height up to MaxHeight *)

MaxHeight == 1100

LadderInit ==
  /\ now = 0
  /\ held = {}
  /\ val = NoVal
  /\ upd = NoReq
  /\ del = NoReq
  /\ resp = NoResp
  /\ LET a == AtRest(Followed, "u1", "unlisted", NoHash, "processing") IN
     /\ videos = [v \in VideoIds |-> IF v = Followed THEN a.video ELSE NoVideo]
     /\ storage = [v \in VideoIds |-> IF v = Followed THEN a.files ELSE NoFiles]
     /\ pv = [v \in VideoIds |-> IF v = Followed THEN a.pipeline ELSE NoPipeline]

LadderNext ==
  \/ \E ok \in BOOLEAN, h \in 0 .. MaxHeight : ExtractMetadata(Followed, ok, h)
  \/ \E dbUp \in BOOLEAN : SaveMetadata(Followed, dbUp)
  \/ \E dbUp \in BOOLEAN : SaveFailed(Followed, dbUp)

LadderSpec == LadderInit /\ [][LadderNext]_vars

-----------------------------------------------------------------------------
(* A passphrase from upload to the access gate: one upload is followed through
   its pipeline, and anonymous viewers ask for access *)

AccessPassphrases == {NoPassphrase, Good, Padded, Wrong}

PassphraseNext ==
  \/ \E p \in UploadPassphrases, rename \in RenameOutcomes, dbUp \in BOOLEAN :
       Upload("u1", Followed, Undefined, p, rename, dbUp)
  \/ PipelineStep(Followed)
  \/ \E p \in AccessPassphrases : VideoAccess(Followed, Undefined, p)
  \/ \E p \in AccessPassphrases : StreamAccess(Followed, Undefined, p)
  \/ Discard

PassphraseSpec == Init /\ [][PassphraseNext]_vars

-----------------------------------------------------------------------------
(* Upload requests alone: every exit of the upload route, for one video id *)

UploadNext ==
  \/ \E u \in {Undefined, "u1"}, vis \in Visibilities \cup {Undefined, Invalid},
        p \in UploadPassphrases, rename \in RenameOutcomes, dbUp \in BOOLEAN :
       Upload(u, Followed, vis, p, rename, dbUp)
  \/ Discard

UploadSpec == Init /\ [][UploadNext]_vars

-----------------------------------------------------------------------------
(* The pipeline of one upload under fair scheduling: the event loop runs every
   continuation that is ready, and a response that was sent is read *)

TerminationNext ==
  \/ UploadStep(Followed, {"u1"}, {NoPassphrase, Good})
  \/ PipelineStep(Followed)
  \/ EncodeHangs(Followed)
  \/ Discard

TerminationSpec ==
  /\ Init
  /\ [][TerminationNext]_vars
  /\ WF_vars(PipelineStep(Followed))
  /\ WF_vars(Discard)

-----------------------------------------------------------------------------
(* One granted access and what its token leads to: a client that asks for access
   once, then uses only the token it was given and the tokens of the playlists
   it is served, while the clock runs *)

ChainInit ==
  /\ now = 0
  /\ held = {}
  /\ val = NoVal
  /\ upd = NoReq
  /\ del = NoReq
  /\ resp = NoResp
  /\ LET a == AtRest("v1", "u1", "unlisted", bcryptHash(Good), "ready")
         b == AtRest("v2", Bystander, "public", NoHash, "ready")
     IN /\ videos = [v \in VideoIds |-> IF v = "v1" THEN a.video ELSE b.video]
        /\ storage = [v \in VideoIds |-> IF v = "v1" THEN a.files ELSE b.files]
        /\ pv = [v \in VideoIds |-> IF v = "v1" THEN a.pipeline ELSE b.pipeline]

\* the one access request: the client holds no token yet
FirstAccess(videoId, user, passphrase) ==
  /\ held = {}
  /\ StreamAccess(videoId, user, passphrase)

\* Date.now() moves on; the clock is read from the grant of the access on
Wait ==
  /\ held # {}
  /\ now < 3 * SignedUrlExpiry + 1
  /\ now' = now + 1
  /\ Quiet
  /\ UNCHANGED <<held, videos, storage, pv, upd, del>>

ChainNext ==
  \/ \E v \in VideoIds, u \in MaybeUser, p \in GatePassphrases : FirstAccess(v, u, p)
  \/ \E v \in VideoIds, f \in StreamFiles : GetStream(v, f)
  \/ Follow
  \/ Discard
  \/ Wait

ChainSpec == ChainInit /\ [][ChainNext]_vars

-----------------------------------------------------------------------------
(* Playback by clients that may go away in the middle of a segment *)

StreamingNext ==
  \/ \E v \in VideoIds, u \in MaybeUser, p \in GatePassphrases : StreamAccess(v, u, p)
  \/ \E v \in VideoIds, f \in StreamFiles : GetStream(v, f)
  \/ \E v \in VideoIds, f \in StreamFiles : Disconnect(v, f)
  \/ Follow
  \/ Discard

StreamingSpec == ChainInit /\ [][StreamingNext]_vars

-----------------------------------------------------------------------------
(* The whole system *)

Next ==
  \/ SignerNext
  \/ \E v \in VideoIds : UploadStep(v, MaybeUser \cup {Bystander}, UploadPassphrases)
  \/ \E v \in VideoIds, u \in UserIds, p \in UploadPassphrases :
       Upload(u, v, Invalid, p, "ok", TRUE)
  \/ \E v \in VideoIds : PipelineStep(v) \/ UpdateStep(v) \/ DeleteStep(v)
  \/ \E v \in VideoIds, u \in MaybeUser, p \in GatePassphrases : VideoAccess(v, u, p)
  \/ \E v \in VideoIds, u \in MaybeUser, p \in GatePassphrases : StreamAccess(v, u, p)
  \/ \E v \in VideoIds, f \in StreamFiles : GetStream(v, f)
  \/ Follow
  \/ Discard
  \/ \E v \in VideoIds : EncodeHangs(v)
  \/ \E v \in VideoIds, f \in StreamFiles : Disconnect(v, f)
  \/ Wait

Spec == Init /\ [][Next]_vars

-----------------------------------------------------------------------------
(* Claims about the signer, under SignerSpec *)

Genuine(h) == h.tok = h.of
CorrectlySigned(tok) ==
  /\ decodeToken(tok).ok
  /\ tok.s = createSignature(tok.p)

\* C1: a token minted with ttl > 0, for a user id or for nobody, validated before
\* its expiry, is accepted and yields the videoId, resource and userId it was
\* minted for (no userId when minted for nobody), with expiresAt in (now, now + ttl]
\* of the mint.
TokenRoundTrip ==
  (val.called /\ Genuine(val.h) /\ val.h.req.expiresIn > 0
     /\ val.at <= val.h.req.at + val.h.req.expiresIn)
  => /\ val.result.ok
     /\ val.result.payload.videoId = val.h.req.videoId
     /\ val.result.payload.resource = val.h.req.resource
     /\ UserIdOf(val.result.payload) = val.h.req.userId
     /\ ("userId" \in DOMAIN val.result.payload) = (val.h.req.userId # Undefined)
     /\ val.result.payload.expiresAt > val.h.req.at
     /\ val.result.payload.expiresAt <= val.h.req.at + val.h.req.expiresIn

TokenRoundTripWitness ==
  /\ val.called /\ Genuine(val.h) /\ val.h.req.expiresIn = 1
  /\ val.h.req.userId \in UserIds
  /\ val.at = val.h.req.at + 1
  /\ val.result.ok /\ val.result.payload.userId = val.h.req.userId

\* C2: a token that differs from a minted token in a payload field (videoId,
\* resource, expiresAt, userId added, removed or changed) or in the MAC is
\* rejected by validateSignedUrl.
TamperRejected ==
  (val.called /\ ~Genuine(val.h)) => ~val.result.ok

\* C3: a correctly signed token is accepted exactly while now <= expiresAt; a
\* rejection of it is TOKEN_EXPIRED and stays a rejection at every later time; a
\* token minted with ttl < 0 is rejected as expired.
ExpiryExact ==
  (val.called /\ CorrectlySigned(val.h.tok))
  => /\ val.result.ok = (val.at <= val.h.tok.p.expiresAt)
     /\ ~val.result.ok => /\ val.result.code = "TOKEN_EXPIRED"
                          /\ \A t \in val.at .. (MaxClock + 1) : ~validateSignedUrl(val.h.tok, t).ok
     /\ (Genuine(val.h) /\ val.h.req.expiresIn < 0) => ~val.result.ok

ExpiryWitness ==
  /\ val.called /\ Genuine(val.h) /\ val.h.req.expiresIn > 0
  /\ val.at > val.h.req.at
  /\ ~val.result.ok /\ val.result.code = "TOKEN_EXPIRED"

-----------------------------------------------------------------------------
(* Claims about playback, under ServeSpec *)

Present(videoId) == videos[videoId].row = "present"
Ready(videoId) == Present(videoId) /\ videos[videoId].status = "ready"
Private(videoId) == Present(videoId) /\ videos[videoId].visibility = "private"
Protected(videoId) == Present(videoId) /\ videos[videoId].passphraseHash # NoHash
Refused(statusCode) ==
  resp.statusCode = statusCode /\ resp.tokens = {} /\ resp.body = NoPath

\* a stream request that carries a token the signer accepts at this time
WithValidToken ==
  /\ resp.op = "stream"
  /\ resp.req.h.tok # NoToken
  /\ validateSignedUrl(resp.req.h.tok, now).ok

\* C4: a stream request with a valid token minted for (v, r) succeeds only on
\* the URL /stream/v/r; on a URL with another file it is refused with 403
\* RESOURCE_MISMATCH, on a URL of another video with 403, and nothing is served.
TokenBinding ==
  WithValidToken
  => LET minted == resp.req.h.req IN
     /\ resp.statusCode = 200
          => resp.req.videoId = minted.videoId /\ resp.req.file = minted.resource
     /\ resp.req.file # minted.resource
          => Refused(403) /\ resp.code = "RESOURCE_MISMATCH"
     /\ resp.req.videoId # minted.videoId => Refused(403)

TokenBindingWitness ==
  /\ WithValidToken
  /\ resp.req.h.req.videoId # resp.req.videoId
  /\ resp.req.h.req.resource = resp.req.file
  /\ Ready(resp.req.videoId)
  /\ Stored(resp.req.videoId, resp.req.file)
  /\ Refused(403) /\ resp.code = "INVALID_VIDEO_ID"

\* C5: an access request for a ready private video by anyone but the owner is
\* refused with 403 ACCESS_DENIED and no token; the owner's request, when it
\* passes the passphrase check, succeeds with one token, valid for
\* (videoId, master.m3u8, owner).
PrivateGate ==
  (resp.op = "access" /\ Ready(resp.req.videoId) /\ Private(resp.req.videoId))
  => LET video == videos[resp.req.videoId] IN
     /\ ~IsOwner(video, resp.req.user)
          => Refused(403) /\ resp.code = "ACCESS_DENIED"
     /\ (/\ IsOwner(video, resp.req.user)
         /\ \/ video.passphraseHash = NoHash
            \/ verifyPassphrase(resp.req.passphrase, video.passphraseHash))
          => /\ resp.statusCode = 200
             /\ Cardinality(resp.tokens) = 1
             /\ \A e \in resp.tokens :
                  LET r == validateSignedUrl(e.tok, now) IN
                  /\ r.ok
                  /\ r.payload.videoId = resp.req.videoId
                  /\ r.payload.resource = MasterFile
                  /\ UserIdOf(r.payload) = video.userId

PrivateGateWitness ==
  /\ resp.op = "access" /\ resp.req.route = "videos"
  /\ Ready(resp.req.videoId) /\ Private(resp.req.videoId)
  /\ resp.req.user = Undefined
  /\ Refused(403) /\ resp.code = "ACCESS_DENIED"

\* C6: on every route, an access request for a ready passphrase-protected video
\* that passes the visibility check gets a token only with a passphrase that
\* verifies: none gives 401 PASSPHRASE_REQUIRED, a wrong one 401
\* INVALID_PASSPHRASE, and no token either way.
PassphraseGate ==
  (/\ resp.op = "access"
   /\ Ready(resp.req.videoId) /\ Protected(resp.req.videoId)
   /\ Private(resp.req.videoId) => IsOwner(videos[resp.req.videoId], resp.req.user))
  => LET video == videos[resp.req.videoId] IN
     /\ resp.req.passphrase = NoPassphrase
          => Refused(401) /\ resp.code = "PASSPHRASE_REQUIRED"
     /\ (/\ resp.req.passphrase # NoPassphrase
         /\ ~verifyPassphrase(resp.req.passphrase, video.passphraseHash))
          => Refused(401) /\ resp.code = "INVALID_PASSPHRASE"

\* C7: a playback token minted in a response (master token by the gate, variant
\* and segment tokens by playlist rewriting) for a video that is private at that
\* time is minted for the owner.
PrivateMintsForOwner ==
  \A e \in resp.tokens :
    Private(e.req.videoId) => e.req.userId = videos[e.req.videoId].userId

\* C8: for a stored video that is not ready the access gate answers
\* VIDEO_NOT_READY and mints no token; a stream request with a valid token for
\* its URL is answered 404 with nothing served when the video is absent or not
\* ready; whatever is served is of a ready video.
NotReadyRefused ==
  /\ (resp.op = "access" /\ Present(resp.req.videoId) /\ ~Ready(resp.req.videoId))
       => Refused(400) /\ resp.code = "VIDEO_NOT_READY"
  /\ (/\ WithValidToken
      /\ resp.req.h.tok.p.videoId = resp.req.videoId
      /\ resp.req.h.tok.p.resource = resp.req.file
      /\ ~Ready(resp.req.videoId))
       => Refused(404)
  /\ (resp.op = "stream" /\ resp.body # NoPath) => Ready(resp.req.videoId)

-----------------------------------------------------------------------------
(* Claims about the pipeline, under PipelineSpec *)

StatusMoves ==
  {<<"uploading", "processing">>, <<"uploading", "failed">>,
   <<"processing", "ready">>, <<"processing", "failed">>}

\* C9: the persisted status of a video only moves forward, from uploading to
\* processing (or straight to failed) and from processing to ready or failed;
\* a persisted ready or failed never changes, whatever the interleaving of
\* processVideo with updateVideo.
StatusMonotone ==
  [][\A v \in VideoIds :
       (videos[v].row = "present" /\ videos'[v].row = "present"
          /\ videos'[v].status # videos[v].status)
       => <<videos[v].status, videos'[v].status>> \in StatusMoves]_vars

\* an edit read the document while it was processing and was saved after ready
\* had been persisted
StatusMonotoneWitness ==
  /\ resp.op = "updateVideo" /\ resp.statusCode = 200
  /\ resp.doc.status = "processing"
  /\ resp.doc.visibility = "private"
  /\ videos[resp.req.videoId].visibility = "private"
  /\ videos[resp.req.videoId].status = "ready"
  /\ pv[resp.req.videoId].pc = "returned"

\* C10: when processVideo has returned or thrown, the persisted status of the
\* video is ready or failed, whichever writes to the document store failed.
ExitPersisted ==
  \A v \in VideoIds :
    (pv[v].pc \in {"returned", "thrown"} /\ videos[v].row = "present")
    => videos[v].status \in {"ready", "failed"}

\* the HLS tree of a video holds the master manifest, which lists the given
\* names, and the playlist and segments of every name listed
Published(v, names) ==
  /\ Stored(v, MasterFile)
  /\ storage[v].master = names
  /\ \A n \in Range(names) : RenditionFiles(n) \subseteq storage[v].hls

\* C11: a video whose persisted status is ready has masterPlaylistPath =
\* <hlsPath>/master.m3u8; its pipeline wrote the manifest before that save, with
\* at least one entry, every entry a rendition whose encode succeeded; and while
\* the HLS directory has not been deleted the manifest and the files of every
\* variant it names are in storage.
ReadyIsPublished ==
  \A v \in VideoIds :
    Ready(v)
    => /\ videos[v].masterPlaylistPath = MasterFile
       /\ pv[v].pc = "returned"
       /\ Len(pv[v].succeeded) >= 1
       /\ storage[v].dir => Published(v, pv[v].succeeded)

ReadyIsPublishedWitness ==
  /\ Ready(Followed)
  /\ pv[Followed].succeeded = <<"480p", "360p">>
  /\ Published(Followed, <<"480p", "360p">>)

-----------------------------------------------------------------------------
(* The token chain, under ServeSpec *)

\* the middleware passes the token on the URL of the file, and the handler's
\* videoId check passes
Accepted(tok, videoId, file, t) ==
  LET m == validateSignedUrlMiddleware(tok, file, t) IN
  m.next /\ m.signedPayload.videoId = videoId

\* the files a served playlist links to
Links(videoId, body) ==
  {f \in Range(Lines(videoId, body)) :
     Ext(f) = (IF body = MasterFile THEN "m3u8" ELSE "ts")}

\* C12: the token of a granted access request is accepted on the master URL;
\* every line of a served master playlist that names a variant and every line of
\* a served variant playlist that names a segment carries a token that, until it
\* expires, is accepted on the URL of that line for the same video; and a request
\* with such a token for a stored file of a ready video is served that file.
TokenChain ==
  /\ (resp.op = "access" /\ resp.statusCode = 200)
       => \A e \in resp.tokens : \A t \in now .. e.tok.p.expiresAt :
            Accepted(e.tok, resp.req.videoId, MasterFile, t)
  /\ (resp.op = "stream" /\ resp.statusCode = 200 /\ Ext(resp.body) = "m3u8")
       => /\ {e.req.resource : e \in resp.tokens} = Links(resp.req.videoId, resp.body)
          /\ \A e \in resp.tokens :
               /\ e.tok.p.expiresAt >= now
               /\ \A t \in now .. e.tok.p.expiresAt :
                    /\ Accepted(e.tok, resp.req.videoId, e.req.resource, t)
                    /\ StreamRouter(resp.req.videoId, e.req.resource, e.tok, t).statusCode = 200
  /\ (/\ resp.op = "stream"
      /\ resp.req.h.tok # NoToken
      /\ Genuine(resp.req.h)
      /\ resp.req.h.req.videoId = resp.req.videoId
      /\ resp.req.h.req.resource = resp.req.file
      /\ resp.req.h.tok.p.expiresAt >= now
      /\ Ready(resp.req.videoId)
      /\ Stored(resp.req.videoId, resp.req.file))
       => resp.statusCode = 200 /\ resp.body = resp.req.file

\* the end of the chain: a segment served on a token of a rewritten variant playlist
TokenChainWitness ==
  /\ resp.op = "stream" /\ resp.statusCode = 200
  /\ Ext(resp.body) = "ts"
  /\ resp.req.h.req.resource = resp.body
  /\ resp.req.h.req.videoId = resp.req.videoId

-----------------------------------------------------------------------------
(* Claims about the encode loop and the exits of processVideo, under PipelineSpec *)

\* the ladder planned for the probed height of a video, by name
Planned(v) == QualityNames(determineQualityLevels(pv[v].doc.height))

Exited(v) == pv[v].pc \in {"returned", "thrown"}
Caught(v) == pv[v].pc \in {"saveFailed", "thrown"}
PastEncode(v) == pv[v].pc \in {"writeMaster", "thumbnail", "saveReady", "returned"}

\* names is made of entries of ladder, each once, in the order of ladder
InLadderOrder(names, ladder) ==
  /\ Range(names) \subseteq Range(ladder)
  /\ \A i, j \in 1 .. Len(names) :
       i < j => \E a, b \in 1 .. Len(ladder) :
                  a < b /\ ladder[a] = names[i] /\ ladder[b] = names[j]

FailurePersisted ==
  \A v \in VideoIds :
    Present(v)
    => /\ (/\ pv[v].pc = "thrown"
           /\ pv[v].doc.processingError \in {"ffprobe", "All renditions failed to generate"})
            => /\ videos[v].status = "failed"
               /\ videos[v].processingError = pv[v].doc.processingError
               /\ ~Stored(v, MasterFile)
       /\ (videos[v].processingError # Undefined) = (videos[v].status = "failed")

-----------------------------------------------------------------------------
(* The ladder, under LadderSpec *)

\* the renditions the ladder is drawn from, as (height, bitrate) pairs
Renditions == {<<1080, "5000k">>, <<720, "2800k">>, <<480, "1400k">>, <<360, "800k">>}

\* C15: for the probed height H the ladder holds exactly the renditions of
\* (1080, 5000k), (720, 2800k), (480, 1400k), (360, 800k) with height <= H, each
\* once, from the highest to the lowest, or the single entry (H, 800k) when
\* H < 360; it is never empty and holds no height above H; the encode loop is
\* given that ladder.
LadderDerivation ==
  \A v \in VideoIds :
    pv[v].pc \in {"saveMetadata", "mkdir"}
    => LET H == pv[v].doc.height
           ladder == determineQualityLevels(H)
       IN /\ Len(ladder) >= 1
          /\ \A i \in 1 .. Len(ladder) :
               ladder[i].height <= H /\ ladder[i].name = QualityName(ladder[i].height)
          /\ \A i, j \in 1 .. Len(ladder) : i < j => ladder[i].height > ladder[j].height
          /\ IF H < 360
             THEN ladder = <<[name |-> QualityName(H), height |-> H, bitrate |-> "800k"]>>
             ELSE {<<ladder[i].height, ladder[i].bitrate>> : i \in 1 .. Len(ladder)}
                    = {r \in Renditions : r[1] <= H}
          /\ pv[v].pc = "mkdir" => pv[v].todo = QualityNames(ladder)

\* a source between two rungs: 1080p is left out, three renditions are planned
LadderWitness ==
  /\ pv[Followed].pc = "mkdir"
  /\ pv[Followed].doc.height = 1079
  /\ pv[Followed].todo = <<"720p", "480p", "360p">>

-----------------------------------------------------------------------------
(* Claims about delete, under DeleteSpec and ServeSpec *)

Deleted(v) == videos[v].row = "deleted"

\* C16: once a video's record has been deleted and both the delete request and
\* the video's pipeline have finished, neither the source blob nor the HLS
\* directory (nor any file in it) exists, and the record is absent.
DeleteOutlastsPipeline ==
  \A v \in VideoIds :
    (Deleted(v) /\ ~del.active /\ Exited(v))
    => /\ ~storage[v].original
       /\ ~storage[v].dir
       /\ storage[v].hls = {}

\* C17: for a video whose pipeline has ended, a DELETE that succeeds leaves no
\* source blob, no HLS directory and no record; a DELETE of a deleted video by an
\* authenticated user is answered 404 VIDEO_NOT_FOUND and changes neither the
\* store nor the storage.
IdempotentDelete ==
  /\ [](resp.op = "deleteVideo"
        => /\ (resp.statusCode = 200 /\ Exited(resp.req.videoId))
                => Deleted(resp.req.videoId) /\ storage[resp.req.videoId] = NoFiles
           /\ (Deleted(resp.req.videoId) /\ resp.req.user # Undefined /\ resp.statusCode # 200)
                => Refused(404) /\ resp.code = "VIDEO_NOT_FOUND")
  /\ [][\A v \in VideoIds :
          (Deleted(v) /\ resp'.op = "deleteVideo" /\ resp'.req.videoId = v)
          => UNCHANGED <<videos, storage, pv>>]_vars

\* the second DELETE of a video, by its former owner
IdempotentDeleteWitness ==
  /\ resp.op = "deleteVideo"
  /\ resp.req.user = "u1"
  /\ Deleted(resp.req.videoId)
  /\ storage[resp.req.videoId] = NoFiles
  /\ Refused(404) /\ resp.code = "VIDEO_NOT_FOUND"

\* C18: a delete request that is removing the source blob or the HLS directory
\* goes on to delete the record, whatever the storage answers.
StorageErrorStillDeletes ==
  [][(del.active /\ del.pc \in {"original", "directory"}) => del'.active]_vars

-----------------------------------------------------------------------------
(* Claims about upload, under PipelineSpec and PassphraseSpec *)

\* C19: the 201 response of an upload carries status "uploading".
UploadAcknowledgedUploading ==
  (resp.op = "uploadVideo" /\ resp.statusCode = 201)
  => resp.doc.videoId = resp.req.videoId /\ resp.doc.status = "uploading"

\* the passphrases, other than blank ones, that an accepted upload may have
\* carried for the stored video
AcceptedAtUpload(v) ==
  {p \in UploadPassphrases :
     /\ Len(trim(p)) > 0
     /\ hashPassphrase(trim(p)).ok
     /\ videos[v].passphraseHash = hashPassphrase(trim(p)).hash}

\* C20: a passphrase of fewer than 4 characters is rejected at upload with
\* WEAK_PASSPHRASE; for a ready video uploaded with passphrase p, an access
\* request supplying exactly p is granted a token and one supplying another
\* passphrase is refused with INVALID_PASSPHRASE (on the route that loads the
\* passphrase hash).
PassphraseRoundTrip ==
  /\ (resp.op = "uploadVideo" /\ resp.req.user # Undefined
        /\ Len(trim(resp.req.passphrase)) > 0
        /\ Len(resp.req.passphrase) < MinPassphraseLength)
       => Refused(400) /\ resp.code = "WEAK_PASSPHRASE"
  /\ (resp.op = "access" /\ resp.req.route = "stream"
        /\ Ready(resp.req.videoId) /\ resp.req.passphrase # NoPassphrase)
       => \A p \in AcceptedAtUpload(resp.req.videoId) :
            IF resp.req.passphrase = p
            THEN resp.statusCode = 200 /\ resp.tokens # {}
            ELSE resp.tokens = {} /\ resp.code = "INVALID_PASSPHRASE"

-----------------------------------------------------------------------------
(* Claims about the upload route, under UploadSpec *)

\* the request passed authentication, validation and the passphrase check, and
\* came to move the temp file
CameToMove ==
  /\ resp.op = "uploadVideo"
  /\ resp.req.user # Undefined
  /\ resp.req.visibility \in Visibilities \cup {Undefined}
  /\ resp.code # "WEAK_PASSPHRASE"

\* C21: when an upload request has completed, on whatever exit, no temp file of
\* it is left in the scratch directory.
TempFileRemoved ==
  \A v \in VideoIds : ~storage[v].temp

\* C28: whenever moveFileSafe, with the copy and the deletes succeeding, leaves
\* the source at storagePath, the upload has put it there: in particular when the
\* rename fails with EXDEV.
CrossDeviceMove ==
  CameToMove
  => (moveFileSafe(resp.req.rename, TRUE, TRUE, TRUE).dest
        => storage[resp.req.videoId].original)

-----------------------------------------------------------------------------
(* Claims about the order of the gate's checks and about rewriting, under ServeSpec *)

\* C22: the first failing check of the access gate, in the order existence,
\* readiness, private-owner, decides the error: a video that is not stored gives
\* VIDEO_NOT_FOUND; a stored video that is not ready gives VIDEO_NOT_READY
\* whoever asks and whatever passphrase is sent; a ready private video asked for
\* by another than its owner gives ACCESS_DENIED whatever passphrase is sent.
GateOrder ==
  resp.op = "access"
  => LET v == resp.req.videoId IN
     /\ ~Present(v) => resp.code = "VIDEO_NOT_FOUND"
     /\ (Present(v) /\ ~Ready(v)) => resp.code = "VIDEO_NOT_READY"
     /\ (Ready(v) /\ Private(v) /\ ~IsOwner(videos[v], resp.req.user))
          => resp.code = "ACCESS_DENIED"

\* C23: the playlist served is the stored one line by line, in order; a line
\* carries a token exactly when it ends in .m3u8 (master playlist) or in .ts
\* (variant playlist); the token is valid, for the URL's videoId, with that line
\* as resource and with the userId of the presented token, absent if that token
\* has none; the response carries these tokens and no other.
RewritePreserves ==
  (resp.op = "stream" /\ resp.statusCode = 200 /\ Ext(resp.body) = "m3u8")
  => LET v == resp.req.videoId
         presented == resp.req.h.tok.p
         content == Lines(v, resp.body)
         ext == IF resp.body = MasterFile THEN "m3u8" ELSE "ts"
         out == IF resp.body = MasterFile
                THEN rewritePlaylistUrls(content, v, UserIdOf(presented), now)
                ELSE rewriteSegmentUrls(content, v, UserIdOf(presented), now)
     IN /\ Len(out) = Len(content)
        /\ \A i \in 1 .. Len(content) :
             /\ out[i].line = content[i]
             /\ ("token" \in DOMAIN out[i]) = (Ext(content[i]) = ext)
             /\ "token" \in DOMAIN out[i]
                  => LET r == validateSignedUrl(out[i].token.tok, now) IN
                     /\ r.ok
                     /\ r.payload.videoId = v
                     /\ r.payload.resource = content[i]
                     /\ UserIdOf(r.payload) = UserIdOf(presented)
                     /\ ("userId" \in DOMAIN r.payload) = ("userId" \in DOMAIN presented)
        /\ resp.tokens = Tokens(out)

\* a master playlist served to a signed-in viewer: one line of it names a variant
RewritePreservesWitness ==
  /\ resp.op = "stream" /\ resp.statusCode = 200
  /\ resp.body = MasterFile
  /\ UserIdOf(resp.req.h.tok.p) = "u2"
  /\ Cardinality(resp.tokens) = 1
  /\ Len(Lines(resp.req.videoId, resp.body)) > 1

-----------------------------------------------------------------------------
(* Claims about the persisted manifest path, under PipelineSpec *)

\* C24: a stored video whose persisted status is not ready has no
\* masterPlaylistPath.
PathOnlyWhenReady ==
  \A v \in VideoIds :
    (Present(v) /\ ~Ready(v)) => videos[v].masterPlaylistPath = NoPath

\* C29: validateSignedUrl classifies its rejections, all of them 403: a token that
\* cannot be decoded is INVALID_TOKEN; a decodable token whose MAC does not match
\* its payload is INVALID_SIGNATURE whatever the MAC's length, also when the
\* token is expired; a correctly signed token past its expiry is TOKEN_EXPIRED.
RejectionClasses ==
  val.called
  => LET tok == val.h.tok
         r == val.result
     IN  /\ ~r.ok => r.statusCode = 403
         /\ ~decodeToken(tok).ok => (~r.ok /\ r.code = "INVALID_TOKEN")
         /\ (decodeToken(tok).ok /\ ~CorrectlySigned(tok))
              => (~r.ok /\ r.code = "INVALID_SIGNATURE")
         /\ (CorrectlySigned(tok) /\ tok.p.expiresAt < val.at)
              => (~r.ok /\ r.code = "TOKEN_EXPIRED")

\* C30: generateSignedUrl sets expiresAt to the time of the call plus the ttl it
\* was given, for every ttl given, zero and negative ones included.
ExplicitTtlHonoured ==
  \A h \in held : h.of.p.expiresAt = h.req.at + h.req.expiresIn

-----------------------------------------------------------------------------
(* Claims about the lifetime of a granted access, under ChainSpec *)

\* a stream request that was served
StreamServed == resp.op = "stream" /\ resp.statusCode = 200

\* C25: with the tokens that derive from the master token of one access granted
\* at time 0, the master playlist is served until ttl, a variant playlist until
\* 2 * ttl, a segment until 3 * ttl and nothing after 3 * ttl; a served segment
\* carries no token and no stream response carries a token for the master playlist.
TimeLimited ==
  /\ StreamServed
       => /\ now <= 3 * SignedUrlExpiry
          /\ resp.body = MasterFile => now <= SignedUrlExpiry
          /\ Ext(resp.body) = "m3u8" => now <= 2 * SignedUrlExpiry
  /\ (StreamServed /\ Ext(resp.body) = "ts") => resp.tokens = {}
  /\ resp.op = "stream" => \A e \in resp.tokens : e.tok.p.resource # MasterFile
  /\ \A h \in held : h.tok.p.expiresAt <= 3 * SignedUrlExpiry

\* a segment served at the last moment, on a chain of tokens each used as it expires
TimeLimitedWitness ==
  /\ StreamServed
  /\ Ext(resp.body) = "ts"
  /\ now = 3 * SignedUrlExpiry
  /\ resp.req.h.req.at = 2 * SignedUrlExpiry

-----------------------------------------------------------------------------
(* Claims about the termination of processVideo, under TerminationSpec *)

\* C26: under fair scheduling, every run of processVideo that was started comes
\* to an end, by its return or by a throw.
Terminates ==
  \A v \in VideoIds : (pv[v].pc # "idle") ~> Exited(v)

-----------------------------------------------------------------------------
(* Claims about the read streams of served segments, under StreamingSpec *)

\* C27: no read stream that serveSegment opened stays open once the response
\* it was piped to has closed.
StreamsReleased ==
  \A v \in VideoIds : storage[v].open = 0

====
